---- MODULE Spec2Model ----
(***************************************************************************)
(* A model of ec_pylint_checkers/import_checker.py: the ImportChecker      *)
(* callbacks (visit_import, visit_from, leave_module) driven by a host     *)
(* tree walker, and the _module_group classifier.                          *)
(*                                                                         *)
(* Python strings are sequences of one-character strings, so that split,   *)
(* startswith, string comparison and as_string are computed, not assumed.  *)
(***************************************************************************)
EXTENDS Integers, Sequences, FiniteSets, TLC

VARIABLES
    env,        \* the interpreter and filesystem the process was started in
    result,     \* the value returned by the last direct call of _module_group
    module,     \* the astng.Module the host is traversing
    phase,      \* "visiting" while the host walks the module, "left" afterwards
    _imports,   \* ImportChecker._imports
    emitted,    \* the add_message calls made by the last callback, in order
    last,       \* the last callback the host invoked
    visited     \* the nodes handed to visit callbacks since the leave_module before
                \* the module now walked or just left

vars == <<env, result, module, phase, _imports, emitted, last, visited>>

----------------------------------------------------------------------------
(* Bounds of the model *)

\* visit callbacks between two leave_module calls
MaxVisits == 3
\* modules the host traverses in one run
MaxModules == 2
\* segments of a module's path above its file name
MaxPathDepth == 3
\* pieces of the enclosing module's dotted name
MaxDepth == 3
\* leading dots of a from-import
MaxLevel == 3

----------------------------------------------------------------------------
(* Python str *)

\* The characters used, in ASCII order.
Alphabet ==
    <<"\n", " ", "+", ",", "-", ".", "/", "0", "1", "2", "3", "4", "5", "6", "7",
      "8", "9", "@", "a", "b", "c", "d", "e", "f", "g", "h", "i",
      "j", "k", "l", "m", "n", "o", "p", "q", "r", "s", "t", "u", "v", "w",
      "x", "y", "z">>

ord(c) == CHOOSE i \in 1..Len(Alphabet) : Alphabet[i] = c

\* s < t for two str: the first differing character decides, a proper prefix is less.
StrLess(s, t) ==
    \E k \in 1..Len(t) :
        /\ \A j \in 1..(k - 1) : j <= Len(s) /\ s[j] = t[j]
        /\ (k > Len(s) \/ (s[k] # t[k] /\ ord(s[k]) < ord(t[k])))

\* s.startswith(prefix)
startswith(s, prefix) ==
    /\ Len(prefix) <= Len(s)
    /\ SubSeq(s, 1, Len(prefix)) = prefix

\* s.split(sep) for a one-character sep: '' splits to [''].
RECURSIVE split(_, _)
split(s, sep) ==
    IF \A i \in 1..Len(s) : s[i] # sep
    THEN <<s>>
    ELSE LET i == CHOOSE i \in 1..Len(s) :
                      s[i] = sep /\ \A j \in 1..(i - 1) : s[j] # sep
         IN  <<SubSeq(s, 1, i - 1)>> \o split(SubSeq(s, i + 1, Len(s)), sep)

\* sep.join(list)
RECURSIVE join(_, _)
join(sep, list) ==
    IF list = <<>> THEN <<>>
    ELSE IF Len(list) = 1 THEN list[1]
    ELSE list[1] \o sep \o join(sep, Tail(list))

\* filter(None, list): the elements that are not the empty str
filter_None(list) == SelectSeq(list, LAMBDA x : x # <<>>)

\* the elements of a sequence, as a set
Range(list) == {list[i] : i \in 1..Len(list)}

----------------------------------------------------------------------------
(* Words *)

w_os == <<"o", "s">>
w_sys == <<"s", "y", "s">>
w_path == <<"p", "a", "t", "h">>
w_requests == <<"r", "e", "q", "u", "e", "s", "t", "s">>
w_helpers == <<"h", "e", "l", "p", "e", "r", "s">>
w_nosuch == <<"n", "o", "s", "u", "c", "h">>
w_pkg == <<"p", "k", "g">>
w_mod == <<"m", "o", "d">>
w_usr == <<"u", "s", "r">>
w_lib == <<"l", "i", "b">>
w_app == <<"a", "p", "p">>
w_opt == <<"o", "p", "t">>
w_site_packages ==
    <<"s", "i", "t", "e", "-", "p", "a", "c", "k", "a", "g", "e", "s">>
w_dist_packages ==
    <<"d", "i", "s", "t", "-", "p", "a", "c", "k", "a", "g", "e", "s">>
w_import == <<"i", "m", "p", "o", "r", "t">>
w_from == <<"f", "r", "o", "m">>
dot == <<".">>
slash == <<"/">>
space == <<" ">>

\* the absolute path with the given segments
Path(segments) ==
    IF segments = <<>> THEN slash ELSE slash \o join(slash, segments)

\* a dotted name
Dotted(pieces) == join(dot, pieces)

----------------------------------------------------------------------------
(* The process environment: interpreter prefix, working directory, built-in *)
(* module names, what imp.find_module finds, and the symlinks realpath      *)
(* resolves.                                                                *)

ImportError == [found |-> FALSE]
Found(path) == [found |-> TRUE, path |-> path]

\* os.path.realpath(path): a path at or below a symlink resolves through it
realpath(path) ==
    LET through == {l \in DOMAIN env.links :
                       path = l \/ startswith(path, l \o slash)}
    IN  IF through = {} THEN path
        ELSE LET l == CHOOSE l \in through : TRUE
             IN  env.links[l] \o SubSeq(path, Len(l) + 1, Len(path))

\* imp.find_module(name)
find_module(name) ==
    IF name \in DOMAIN env.modules THEN env.modules[name] ELSE ImportError

\* line 85
_STDLIB_PREFIX == realpath(env.prefix) \o slash
\* line 86
_APP_PREFIX == realpath(env.cwd) \o slash

_GROUP_STDLIB == 0
_GROUP_THIRD_PARTY == 1
_GROUP_APP_SPECIFIC == 2

\* _module_group with the application test after the standard-library test
_module_group_stdlib_first(name) ==
    IF name \in env.builtin_module_names THEN _GROUP_STDLIB
    ELSE IF ~find_module(name).found THEN _GROUP_THIRD_PARTY
    ELSE LET real_path == realpath(find_module(name).path)
             path_pieces == Range(split(real_path, "/"))
         IN  IF /\ startswith(real_path, _STDLIB_PREFIX)
                /\ w_site_packages \notin path_pieces
                /\ w_dist_packages \notin path_pieces
             THEN _GROUP_STDLIB
             ELSE IF startswith(real_path, _APP_PREFIX)
             THEN _GROUP_APP_SPECIFIC
             ELSE _GROUP_THIRD_PARTY

\* _module_group treating an unresolvable name as standard library
_module_group_unresolved_stdlib(name) ==
    IF name \in env.builtin_module_names THEN _GROUP_STDLIB
    ELSE IF ~find_module(name).found THEN _GROUP_STDLIB
    ELSE LET real_path == realpath(find_module(name).path)
             path_pieces == Range(split(real_path, "/"))
         IN  IF startswith(real_path, _APP_PREFIX)
             THEN _GROUP_APP_SPECIFIC
             ELSE IF /\ startswith(real_path, _STDLIB_PREFIX)
                     /\ w_site_packages \notin path_pieces
                     /\ w_dist_packages \notin path_pieces
             THEN _GROUP_STDLIB
             ELSE _GROUP_THIRD_PARTY

_module_group(name) ==
    IF name \in env.builtin_module_names THEN _GROUP_STDLIB
    ELSE IF ~find_module(name).found THEN _GROUP_THIRD_PARTY
    ELSE LET real_path == realpath(find_module(name).path)
             path_pieces == Range(split(real_path, "/"))
         IN  IF startswith(real_path, _APP_PREFIX)
             THEN _GROUP_APP_SPECIFIC
             ELSE IF /\ startswith(real_path, _STDLIB_PREFIX)
                     /\ w_site_packages \notin path_pieces
                     /\ w_dist_packages \notin path_pieces
             THEN _GROUP_STDLIB
             ELSE _GROUP_THIRD_PARTY

----------------------------------------------------------------------------
(* The syntax tree the host hands over *)

\* an alias that is absent (None)
NoAlias == <<>>

\* an astng.Module with its dotted name
Module(id, name) == [type |-> "Module", id |-> id, name |-> name]

\* a FunctionDef inside module id: the parent of a nested import
Function(id) == [type |-> "Function", id |-> id, name |-> <<"f">>]

\* astng.Import: import a, b
Import(names, parent) ==
    [type |-> "Import", names |-> [i \in 1..Len(names) |-> <<names[i], NoAlias>>],
     modname |-> <<>>, level |-> 0, parent |-> parent]

\* astng.From: from [level dots]modname import a, b
From(modname, level, names, parent) ==
    [type |-> "From", names |-> [i \in 1..Len(names) |-> <<names[i], NoAlias>>],
     modname |-> modname, level |-> level, parent |-> parent]

\* '.' * n
RECURSIVE dots(_)
dots(n) == IF n = 0 THEN <<>> ELSE dot \o dots(n - 1)

\* the "a, b as c" list of as_string
_import_string(names) ==
    join(<<",", " ">>,
         [i \in 1..Len(names) |->
             IF names[i][2] = NoAlias THEN names[i][1]
             ELSE names[i][1] \o <<" ", "a", "s", " ">> \o names[i][2]])

\* import_node.as_string(): the statement rendered back to source text
as_string(import_node) ==
    IF import_node.type = "Import"
    THEN w_import \o space \o _import_string(import_node.names)
    ELSE w_from \o space \o dots(import_node.level) \o import_node.modname
         \o space \o w_import \o space \o _import_string(import_node.names)

\* list[:stop] of Python, stop possibly negative
slice_to(list, stop) ==
    LET n == Len(list)
        e == IF stop < 0
             THEN (IF n + stop < 0 THEN 0 ELSE n + stop)
             ELSE (IF stop > n THEN n ELSE stop)
    IN  SubSeq(list, 1, e)

----------------------------------------------------------------------------
(* add_message *)

\* a message attached to a node
Msg(msg, node) == [msg |-> msg, node |-> node, args |-> <<>>]

\* '\n'.join('  %s' % line for line in lines)
Lines(lines) ==
    join(<<"\n">>, [i \in 1..Len(lines) |-> <<" ", " ">> \o lines[i]])

\* the digits, '0' first
Digits == <<"0", "1", "2", "3", "4", "5", "6", "7", "8", "9">>

\* '%s' % n for an int n >= 0
RECURSIVE str(_)
str(n) ==
    IF n < 10 THEN <<Digits[n + 1]>> ELSE str(n \div 10) \o <<Digits[(n % 10) + 1]>>

max(x, y) == IF x > y THEN x ELSE y
min(x, y) == IF x < y THEN x ELSE y

\* list[lo:hi] of Python for 0 <= lo <= hi <= len(list)
slice(list, lo, hi) == SubSeq(list, lo + 1, hi)

\* difflib.SequenceMatcher(None, a, b).find_longest_match(alo, ahi, blo, bhi),
\* as (i, j, k): the longest a[i:i+k] == b[j:j+k], the earliest in a, then the
\* earliest in b (the lists are far too short for the autojunk heuristic)
find_longest_match(a, b, alo, ahi, blo, bhi) ==
    LET blocks ==
            {m \in (alo..(ahi - 1)) \X (blo..(bhi - 1)) \X (1..(ahi - alo)) :
                /\ m[1] + m[3] <= ahi
                /\ m[2] + m[3] <= bhi
                /\ \A d \in 1..m[3] : a[m[1] + d] = b[m[2] + d]}
    IN  IF blocks = {} THEN <<alo, blo, 0>>
        ELSE CHOOSE m \in blocks : \A o \in blocks :
                 \/ m[3] > o[3]
                 \/ m[3] = o[3] /\ m[1] < o[1]
                 \/ m[3] = o[3] /\ m[1] = o[1] /\ m[2] <= o[2]

\* the blocks get_matching_blocks finds in a[alo:ahi] and b[blo:bhi], sorted
RECURSIVE matching_blocks(_, _, _, _, _, _)
matching_blocks(a, b, alo, ahi, blo, bhi) ==
    LET m == find_longest_match(a, b, alo, ahi, blo, bhi)
        i == m[1]
        j == m[2]
        k == m[3]
    IN  IF k = 0 THEN <<>>
        ELSE (IF alo < i /\ blo < j
              THEN matching_blocks(a, b, alo, i, blo, j) ELSE <<>>)
             \o <<m>>
             \o (IF i + k < ahi /\ j + k < bhi
                 THEN matching_blocks(a, b, i + k, ahi, j + k, bhi) ELSE <<>>)

\* get_matching_blocks: adjacent blocks collapsed into (i1, j1, k1) from the
\* block carried along
RECURSIVE collapse(_, _, _, _)
collapse(blocks, i1, j1, k1) ==
    IF blocks = <<>> THEN (IF k1 > 0 THEN <<<<i1, j1, k1>>>> ELSE <<>>)
    ELSE LET m == Head(blocks)
         IN  IF i1 + k1 = m[1] /\ j1 + k1 = m[2]
             THEN collapse(Tail(blocks), i1, j1, k1 + m[3])
             ELSE (IF k1 > 0 THEN <<<<i1, j1, k1>>>> ELSE <<>>)
                  \o collapse(Tail(blocks), m[1], m[2], m[3])

\* SequenceMatcher.get_matching_blocks(), with the (la, lb, 0) sentinel
get_matching_blocks(a, b) ==
    Append(collapse(matching_blocks(a, b, 0, Len(a), 0, Len(b)), 0, 0, 0),
           <<Len(a), Len(b), 0>>)

\* the loop of SequenceMatcher.get_opcodes() from position (i, j)
RECURSIVE opcodes(_, _, _)
opcodes(blocks, i, j) ==
    IF blocks = <<>> THEN <<>>
    ELSE LET ai == Head(blocks)[1]
             bj == Head(blocks)[2]
             size == Head(blocks)[3]
         IN  (IF i < ai /\ j < bj THEN <<<<"replace", i, ai, j, bj>>>>
              ELSE IF i < ai THEN <<<<"delete", i, ai, j, bj>>>>
              ELSE IF j < bj THEN <<<<"insert", i, ai, j, bj>>>>
              ELSE <<>>)
             \o (IF size > 0
                 THEN <<<<"equal", ai, ai + size, bj, bj + size>>>> ELSE <<>>)
             \o opcodes(Tail(blocks), ai + size, bj + size)

\* SequenceMatcher.get_opcodes()
get_opcodes(a, b) == opcodes(get_matching_blocks(a, b), 0, 0)

\* the loop of get_grouped_opcodes(n): the groups from codes on, group
\* being the one under way
RECURSIVE grouped(_, _, _)
grouped(codes, group, n) ==
    IF codes = <<>>
    THEN (IF group # <<>> /\ ~(Len(group) = 1 /\ group[1][1] = "equal")
          THEN <<group>> ELSE <<>>)
    ELSE LET c == Head(codes)
         IN  IF c[1] = "equal" /\ c[3] - c[2] > n + n
             THEN <<Append(group, <<"equal", c[2], min(c[3], c[2] + n),
                                    c[4], min(c[5], c[4] + n)>>)>>
                  \o grouped(Tail(codes),
                             <<<<"equal", max(c[2], c[3] - n), c[3],
                                 max(c[4], c[5] - n), c[5]>>>>, n)
             ELSE grouped(Tail(codes), Append(group, c), n)

\* codes = [("equal", 0, 1, 0, 1)] when there are no opcodes
or_equal(codes) == IF codes = <<>> THEN <<<<"equal", 0, 1, 0, 1>>>> ELSE codes

\* a leading equal run cut to its last n lines
trim_first(codes, n) ==
    IF codes[1][1] = "equal"
    THEN [codes EXCEPT ![1] =
             <<"equal", max(@[2], @[3] - n), @[3], max(@[4], @[5] - n), @[5]>>]
    ELSE codes

\* a trailing equal run cut to its first n lines
trim_last(codes, n) ==
    IF codes[Len(codes)][1] = "equal"
    THEN [codes EXCEPT ![Len(codes)] =
             <<"equal", @[2], min(@[3], @[2] + n), @[4], min(@[5], @[4] + n)>>]
    ELSE codes

\* SequenceMatcher.get_grouped_opcodes(n): leading and trailing equal runs
\* cut to n lines, then the groups
get_grouped_opcodes(a, b, n) ==
    grouped(trim_last(trim_first(or_equal(get_opcodes(a, b)), n), n), <<>>, n)

\* difflib._format_range_unified(start, stop)
_format_range_unified(start, stop) ==
    LET length == stop - start
    IN  IF length = 1 THEN str(start + 1)
        ELSE str(IF length = 0 THEN start ELSE start + 1) \o <<",">> \o str(length)

\* every line of lines with prefix put before it, concatenated
RECURSIVE prefixed(_, _)
prefixed(prefix, lines) ==
    IF lines = <<>> THEN <<>>
    ELSE prefix \o Head(lines) \o prefixed(prefix, Tail(lines))

\* the body lines unified_diff yields for the opcodes of one group
RECURSIVE hunk_body(_, _, _)
hunk_body(a, b, group) ==
    IF group = <<>> THEN <<>>
    ELSE LET c == Head(group)
         IN  (IF c[1] = "equal" THEN prefixed(<<" ">>, slice(a, c[2], c[3]))
              ELSE (IF c[1] \in {"replace", "delete"}
                    THEN prefixed(<<"-">>, slice(a, c[2], c[3])) ELSE <<>>)
                   \o (IF c[1] \in {"replace", "insert"}
                       THEN prefixed(<<"+">>, slice(b, c[4], c[5])) ELSE <<>>))
             \o hunk_body(a, b, Tail(group))

\* the '@@' line and the body of every group
RECURSIVE hunks(_, _, _)
hunks(a, b, groups) ==
    IF groups = <<>> THEN <<>>
    ELSE LET group == Head(groups)
             first == group[1]
             last_ == group[Len(group)]
         IN  <<"@", "@", " ", "-">> \o _format_range_unified(first[2], last_[3])
             \o <<" ", "+">> \o _format_range_unified(first[4], last_[5])
             \o <<" ", "@", "@", "\n">>
             \o hunk_body(a, b, group)
             \o hunks(a, b, Tail(groups))

\* ''.join(difflib.unified_diff(a, b, fromfile='actual', tofile='expected')):
\* no file dates, three lines of context, every line ending in '\n'
unified_diff(a, b) ==
    LET groups == get_grouped_opcodes(a, b, 3)
    IN  IF groups = <<>> THEN <<>>
        ELSE <<"-", "-", "-", " ", "a", "c", "t", "u", "a", "l", "\n">>
             \o <<"+", "+", "+", " ", "e", "x", "p", "e", "c", "t", "e", "d", "\n">>
             \o hunks(a, b, groups)

\* ['%s\n' % line for line in lines]
with_newlines(lines) == [i \in 1..Len(lines) |-> lines[i] \o <<"\n">>]

\* an ordering message whose Diff argument goes from expected to actual
OrderMsg_diff_reversed(msg, actual, expected_strs) ==
    [msg |-> msg, node |-> <<>>,
     args |-> <<Lines(actual), Lines(expected_strs),
                unified_diff(with_newlines(expected_strs), with_newlines(actual))>>]

\* an ordering message with its Found, Expected and Diff arguments
OrderMsg(msg, actual, expected_strs) ==
    [msg |-> msg, node |-> <<>>,
     args |-> <<Lines(actual), Lines(expected_strs),
                unified_diff(with_newlines(actual), with_newlines(expected_strs))>>]

\* the message codes of a list of messages
Codes(messages) == {messages[i].msg : i \in 1..Len(messages)}

----------------------------------------------------------------------------
(* ImportChecker: self is [_imports, emitted]; each method returns self     *)
(* after the call.                                                          *)

add_message(self, message) ==
    [self EXCEPT !.emitted = Append(@, message)]

\* _handle_import that drops a nested import without reporting it
_handle_import_silent(self, node) ==
    IF node.parent.type = "Module"
    THEN [self EXCEPT !._imports = Append(@, node)]
    ELSE self

\* _handle_import that collects a nested import as well as reporting it
_handle_import_collect_all(self, node) ==
    IF node.parent.type = "Module"
    THEN [self EXCEPT !._imports = Append(@, node)]
    ELSE add_message([self EXCEPT !._imports = Append(@, node)], Msg("C7002", node))

_handle_import(self, node) ==
    IF node.parent.type = "Module"
    THEN [self EXCEPT !._imports = Append(@, node)]
    ELSE add_message(self, Msg("C7002", node))

\* visit_import that collects one record for each name the statement binds
visit_import_per_name(self, node) ==
    LET s1 == IF Len(node.names) > 1
              THEN add_message(self, Msg("C7001", node)) ELSE self
    IN  IF node.parent.type = "Module"
        THEN [s1 EXCEPT !._imports =
                 @ \o [i \in 1..Len(node.names) |->
                          [node EXCEPT !.names = <<node.names[i]>>]]]
        ELSE add_message(s1, Msg("C7002", node))

visit_import(self, node) ==
    _handle_import(
        IF Len(node.names) > 1 THEN add_message(self, Msg("C7001", node)) ELSE self,
        node)

\* visit_from that reports a relative import and does nothing else with it
visit_from_skip_relative(self, node) ==
    IF node.level # 0 THEN add_message(self, Msg("C7005", node))
    ELSE _handle_import(self, node)

visit_from(self, node) ==
    _handle_import(
        IF node.level # 0 THEN add_message(self, Msg("C7005", node)) ELSE self,
        node)

\* the pieces of a from-import without the imported name
pieces_no_name(import_node, node) ==
    IF import_node.type = "Import"
    THEN split(import_node.names[1][1], ".")
    ELSE slice_to(split(node.name, "."), 0 - import_node.level)
         \o filter_None(split(import_node.modname, "."))

\* the pieces ending in the last name the statement binds, not the first
pieces_last_name(import_node, node) ==
    IF import_node.type = "Import"
    THEN split(import_node.names[Len(import_node.names)][1], ".")
    ELSE slice_to(split(node.name, "."), 0 - import_node.level)
         \o filter_None(split(import_node.modname, "."))
         \o <<import_node.names[Len(import_node.names)][1]>>

\* lines 151-158: the dotted-name pieces of a collected import
pieces(import_node, node) ==
    IF import_node.type = "Import"
    THEN split(import_node.names[1][1], ".")
    ELSE slice_to(split(node.name, "."), 0 - import_node.level)
         \o filter_None(split(import_node.modname, "."))
         \o <<import_node.names[1][1]>>

\* p < q for two tuples of str
PiecesLess(p, q) ==
    \E k \in 1..Len(q) :
        /\ \A j \in 1..(k - 1) : j <= Len(p) /\ p[j] = q[j]
        /\ (k > Len(p) \/ (p[k] # q[k] /\ StrLess(p[k], q[k])))

\* tuple comparison of expected1 with the groups in descending order
Less1_group_descending(a, b) ==
    \/ a[1] > b[1]
    \/ a[1] = b[1] /\ a[2] < b[2]
    \/ a[1] = b[1] /\ a[2] = b[2] /\ StrLess(a[3], b[3])

\* tuple comparison of expected1 that skips idx
Less1_no_idx(a, b) ==
    \/ a[1] < b[1]
    \/ a[1] = b[1] /\ StrLess(a[3], b[3])

\* tuple comparison of expected1 that looks at idx before group_idx
Less1_idx_first(a, b) ==
    \/ a[2] < b[2]
    \/ a[2] = b[2] /\ a[1] < b[1]
    \/ a[1] = b[1] /\ a[2] = b[2] /\ StrLess(a[3], b[3])

\* a < b for two (group_idx, idx, import_str) tuples
Less1(a, b) ==
    \/ a[1] < b[1]
    \/ a[1] = b[1] /\ a[2] < b[2]
    \/ a[1] = b[1] /\ a[2] = b[2] /\ StrLess(a[3], b[3])

\* tuple comparison of expected2 that skips group_idx
Less2_no_group(a, b) ==
    \/ PiecesLess(a[2], b[2])
    \/ a[2] = b[2] /\ StrLess(a[3], b[3])

\* tuple comparison of expected2 that skips module_name_pieces
Less2_no_pieces(a, b) ==
    \/ a[1] < b[1]
    \/ a[1] = b[1] /\ StrLess(a[3], b[3])

\* a < b for two (group_idx, module_name_pieces, import_str) tuples
Less2(a, b) ==
    \/ a[1] < b[1]
    \/ a[1] = b[1] /\ PiecesLess(a[2], b[2])
    \/ a[1] = b[1] /\ a[2] = b[2] /\ StrLess(a[3], b[3])

Less(msg, a, b) == IF msg = "C7003" THEN Less1(a, b) ELSE Less2(a, b)

\* Insert that leaves out a tuple the list already holds
Insert_dedup(msg, sorted, x) ==
    LET before == {j \in 1..Len(sorted) : ~Less(msg, x, sorted[j])}
        k == IF before = {} THEN 0
             ELSE CHOOSE j \in before : \A i \in before : i <= j
    IN  IF \E j \in 1..Len(sorted) : sorted[j] = x THEN sorted
        ELSE SubSeq(sorted, 1, k) \o <<x>> \o SubSeq(sorted, k + 1, Len(sorted))

\* x put into a sorted list after every element that is not greater than it
Insert(msg, sorted, x) ==
    LET before == {j \in 1..Len(sorted) : ~Less(msg, x, sorted[j])}
        k == IF before = {} THEN 0
             ELSE CHOOSE j \in before : \A i \in before : i <= j
    IN  SubSeq(sorted, 1, k) \o <<x>> \o SubSeq(sorted, k + 1, Len(sorted))

\* expected.sort(): a stable sort by tuple comparison
RECURSIVE sort(_, _)
sort(msg, expected) ==
    IF expected = <<>> THEN <<>>
    ELSE Insert(msg, sort(msg, SubSeq(expected, 1, Len(expected) - 1)),
                expected[Len(expected)])

\* lines 150-160: actual
actual_of(imports) == [i \in 1..Len(imports) |-> as_string(imports[i])]

\* lines 150-163: expected1, with the 0-based index of enumerate
expected1_of(imports, node) ==
    [i \in 1..Len(imports) |->
        <<_module_group(pieces(imports[i], node)[1]), i - 1, as_string(imports[i])>>]

\* lines 150-164: expected2
expected2_of(imports, node) ==
    [i \in 1..Len(imports) |->
        <<_module_group(pieces(imports[i], node)[1]), pieces(imports[i], node),
          as_string(imports[i])>>]

\* [data[-1] for data in expected]
strs(expected) == [i \in 1..Len(expected) |-> expected[i][3]]

\* lines 166-186 without the break
check_order_no_break(self, actual, expected1, expected2) ==
    LET strs1 == strs(sort("C7003", expected1))
        strs2 == strs(sort("C7004", expected2))
        s1 == IF actual # strs1
              THEN add_message(self, OrderMsg("C7003", actual, strs1)) ELSE self
    IN  IF actual # strs2
        THEN add_message(s1, OrderMsg("C7004", actual, strs2)) ELSE s1

\* lines 166-186: complain about C7003 or C7004 (but not both)
check_order(self, actual, expected1, expected2) ==
    LET strs1 == strs(sort("C7003", expected1))
        strs2 == strs(sort("C7004", expected2))
    IN  IF actual # strs1
        THEN add_message(self, OrderMsg("C7003", actual, strs1))
        ELSE IF actual # strs2
        THEN add_message(self, OrderMsg("C7004", actual, strs2))
        ELSE self

\* leave_module without the reset of lines 188-189
leave_module_no_reset(self, node) ==
    check_order(self, actual_of(self._imports),
                expected1_of(self._imports, node),
                expected2_of(self._imports, node))

leave_module(self, node) ==
    LET checked == check_order(self, actual_of(self._imports),
                               expected1_of(self._imports, node),
                               expected2_of(self._imports, node))
    IN  [checked EXCEPT !._imports = <<>>]

----------------------------------------------------------------------------
(* The host *)

\* the checker as the host sees it before a callback
Self == [_imports |-> _imports, emitted |-> <<>>]

\* a typical installation: interpreter under /usr, project in /app
LayoutSystem ==
    [prefix |-> Path(<<w_usr>>),
     cwd |-> Path(<<w_app>>),
     builtin_module_names |-> {w_sys},
     modules |->
        (w_os :> Found(Path(<<w_usr, w_lib, w_os>>))) @@
        (w_requests :> Found(Path(<<w_usr, w_lib, w_site_packages, w_requests>>))) @@
        (w_helpers :> Found(Path(<<w_app, w_helpers>>))) @@
        (w_pkg :> Found(Path(<<w_app, w_pkg>>))),
     links |-> (Path(<<w_app, w_pkg>>) :> Path(<<w_opt, w_pkg>>))]

\* the dotted name of the k-th module the host traverses: a module inside a
\* package, then a module at the top, and so on
ModuleName(k) ==
    IF k % 2 = 1 THEN Dotted(<<w_pkg, w_mod>>) ELSE Dotted(<<w_mod>>)

\* the plain imports the host may visit below parent
Imports(parent) ==
    {Import(<<w_os>>, parent), Import(<<w_sys>>, parent),
     Import(<<w_requests>>, parent), Import(<<w_helpers>>, parent),
     Import(<<w_nosuch>>, parent), Import(<<w_sys, w_os>>, parent)}

\* the plain imports the host may visit inside a function
NestedImports(parent) ==
    {Import(<<w_os>>, parent), Import(<<w_sys, w_os>>, parent)}

\* the from-imports the host may visit below parent
Froms(parent) ==
    {From(w_os, 0, <<w_path>>, parent), From(<<>>, 1, <<w_helpers>>, parent)}

\* the from-imports the host may visit inside a function
NestedFroms(parent) ==
    {From(<<>>, 1, <<w_helpers>>, parent), From(w_os, 0, <<w_path>>, parent)}

\* no value returned yet
NoResult == <<>>

Init ==
    /\ env = LayoutSystem
    /\ result = NoResult
    /\ module = Module(1, ModuleName(1))
    /\ phase = "visiting"
    /\ _imports = <<>>
    /\ emitted = <<>>
    /\ last = "none"
    /\ visited = <<>>

VisitImport ==
    /\ phase = "visiting"
    /\ Len(visited) < MaxVisits
    /\ \E node \in Imports(module) \cup NestedImports(Function(module.id)) :
        LET self == visit_import(Self, node)
        IN  /\ _imports' = self._imports
            /\ emitted' = self.emitted
            /\ visited' = Append(visited, node)
    /\ last' = "visit_import"
    /\ UNCHANGED <<env, result, module, phase>>

VisitFrom ==
    /\ phase = "visiting"
    /\ Len(visited) < MaxVisits
    /\ \E node \in Froms(module) \cup NestedFroms(Function(module.id)) :
        LET self == visit_from(Self, node)
        IN  /\ _imports' = self._imports
            /\ emitted' = self.emitted
            /\ visited' = Append(visited, node)
    /\ last' = "visit_from"
    /\ UNCHANGED <<env, result, module, phase>>

LeaveModule ==
    /\ phase = "visiting"
    /\ LET self == leave_module(Self, module)
       IN  /\ _imports' = self._imports
           /\ emitted' = self.emitted
    /\ phase' = "left"
    /\ last' = "leave_module"
    /\ UNCHANGED <<env, result, module, visited>>

\* the host goes on to the next module after leave_module
NextModule ==
    /\ phase = "left"
    /\ module.id < MaxModules
    /\ module' = Module(module.id + 1, ModuleName(module.id + 1))
    /\ phase' = "visiting"
    /\ emitted' = <<>>
    /\ last' = "none"
    /\ visited' = <<>>
    /\ UNCHANGED <<env, result, _imports>>

\* the host gives up the module it is walking and goes on to the next one:
\* leave_module is not called for the module given up
AbandonModule ==
    /\ phase = "visiting"
    /\ module.id < MaxModules
    /\ module' = Module(module.id + 1, ModuleName(module.id + 1))
    /\ emitted' = <<>>
    /\ last' = "none"
    /\ UNCHANGED <<env, result, phase, _imports, visited>>

Next == VisitImport \/ VisitFrom \/ LeaveModule \/ NextModule

Spec == Init /\ [][Next]_vars

\* a host that may give up a module half way
NextAbandon == Next \/ AbandonModule

SpecAbandon == Init /\ [][NextAbandon]_vars

----------------------------------------------------------------------------
(* _module_group on its own, over many environments *)

\* the sequences over S of length at most n
SeqsUpTo(S, n) == UNION {[1..k -> S] : k \in 0..n}

\* directories the interpreter prefix and the cwd may be
Dirs ==
    {Path(<<>>), Path(<<w_usr>>), Path(<<w_app>>), Path(<<w_usr, w_app>>),
     Path(<<w_app, w_usr>>)}

\* directory names on the way to a module
Segments == {w_usr, w_app, w_lib, w_site_packages, w_dist_packages}

\* what imp.find_module may say of the name mod
Findings ==
    {<<>>} \cup
    {(w_mod :> Found(Path(above \o <<w_mod>>))) :
        above \in SeqsUpTo(Segments, MaxPathDepth)}

\* the cwd as it is, or /app a symlink to /usr/app
Links == {<<>>, (Path(<<w_app>>) :> Path(<<w_usr, w_app>>))}

ClassifyEnvs ==
    {[prefix |-> prefix, cwd |-> cwd, builtin_module_names |-> builtins,
      modules |-> modules, links |-> links] :
        prefix \in Dirs, cwd \in Dirs, builtins \in {{}, {w_mod}},
        modules \in Findings, links \in Links}

InitClassify ==
    /\ env \in ClassifyEnvs
    /\ result = NoResult
    /\ module = Module(1, Dotted(<<w_pkg>>))
    /\ phase = "visiting"
    /\ _imports = <<Import(<<w_mod>>, module)>>
    /\ emitted = <<>>
    /\ last = "none"
    /\ visited = <<>>

\* line 162: group = _module_group(pieces[0])
Classify ==
    /\ result = NoResult
    /\ result' = <<_module_group(pieces(_imports[1], module)[1])>>
    /\ last' = "_module_group"
    /\ UNCHANGED <<env, module, phase, _imports, emitted, visited>>

NextClassify == Classify

SpecClassify == InitClassify /\ [][NextClassify]_vars

----------------------------------------------------------------------------
(* The dotted-name pieces on their own, over many statements and modules *)

\* dotted names of enclosing modules
DeepModuleNames ==
    {Dotted(p) : p \in SeqsUpTo({w_pkg, w_mod}, MaxDepth) \ {<<>>}}

\* the stated module paths of from-imports: '', one piece, two pieces
Modnames == {Dotted(p) : p \in SeqsUpTo({w_os, w_pkg}, 2)}

\* the names a statement binds
BoundNames == {<<w_path>>, <<w_helpers, w_path>>, <<Dotted(<<w_os, w_path>>)>>}

\* "from import a" is no statement: without dots a module path is stated
PiecesNodes(parent) ==
    {From(modname, level, names, parent) :
        modname \in Modnames \ {<<>>}, level \in 0..MaxLevel, names \in BoundNames}
    \cup {From(<<>>, level, names, parent) :
        level \in 1..MaxLevel, names \in BoundNames}
    \cup {Import(names, parent) : names \in BoundNames}

InitPieces ==
    /\ env = LayoutSystem
    /\ result = NoResult
    /\ \E name \in DeepModuleNames : module = Module(1, name)
    /\ phase = "visiting"
    /\ \E node \in PiecesNodes(module) : _imports = <<node>>
    /\ emitted = <<>>
    /\ last = "none"
    /\ visited = <<>>

\* lines 151-158
ComputePieces ==
    /\ result = NoResult
    /\ result' = <<pieces(_imports[1], module)>>
    /\ last' = "pieces"
    /\ UNCHANGED <<env, module, phase, _imports, emitted, visited>>

NextPieces == ComputePieces

SpecPieces == InitPieces /\ [][NextPieces]_vars

----------------------------------------------------------------------------
(* Properties *)

\* the last callback was leave_module
Left == last = "leave_module"

\* the statements among list whose parent is a module
TopLevel(list) == SelectSeq(list, LAMBDA n : n.parent.type = "Module")

\* the provenance group of a statement of the current module
GroupOf(n) == _module_group(pieces(n, module)[1])

\* the rendered texts of a list of statements
Texts(list) == [i \in 1..Len(list) |-> as_string(list[i])]

\* the statements of list in group g, in their order in list
InGroup(list, g) == SelectSeq(list, LAMBDA n : GroupOf(n) = g)

\* the stable partition of list into the three groups
StablePartition(list) ==
    InGroup(list, _GROUP_STDLIB) \o InGroup(list, _GROUP_THIRD_PARTY)
    \o InGroup(list, _GROUP_APP_SPECIFIC)

\* statement m sorts strictly before statement n by group, then by dotted-name
\* pieces compared piece by piece, then by rendered text
SortsBefore(m, n) ==
    LET pm == pieces(m, module)
        pn == pieces(n, module)
    IN  \/ GroupOf(m) < GroupOf(n)
        \/ GroupOf(m) = GroupOf(n) /\ PiecesLess(pm, pn)
        \/ GroupOf(m) = GroupOf(n) /\ pm = pn /\ StrLess(as_string(m), as_string(n))

\* no statement of list precedes one that sorts strictly before it
AlphaOrdered(list) ==
    \A i, j \in 1..Len(list) : i < j => ~SortsBefore(list[j], list[i])

\* the ordering messages among a list of messages
OrderingMsgs(messages) ==
    SelectSeq(messages, LAMBDA m : m.msg \in {"C7003", "C7004"})

str_import_os == w_import \o space \o w_os
str_import_sys == w_import \o space \o w_sys
str_import_requests == w_import \o space \o w_requests

\* C1: a leave_module call emits at most one of C7003 and C7004, and never
\* C7004 when it emits C7003.
C1_AtMostOneOrderingMessage ==
    Left =>
        /\ Len(OrderingMsgs(emitted)) <= 1
        /\ ("C7003" \in Codes(emitted) => "C7004" \notin Codes(emitted))

\* C7003 was emitted for a module whose imports are also out of alphabetical order
C1_Witness ==
    /\ Left
    /\ Codes(emitted) = {"C7003"}
    /\ ~AlphaOrdered(TopLevel(visited))

\* C2: leave_module emits C7003 exactly when the texts in collection order
\* differ from the texts of the stable partition into standard library,
\* third party, application; the message carries both lists.
C2_C7003IffNotGrouped ==
    Left =>
        LET collected == TopLevel(visited)
            actual == Texts(collected)
            expected == Texts(StablePartition(collected))
        IN  /\ "C7003" \in Codes(emitted) <=> actual # expected
            /\ "C7003" \in Codes(emitted) =>
                   emitted = <<OrderMsg("C7003", actual, expected)>>

\* import requests then import os: C7003 with Found and Expected as in scenario 2
C2_Witness ==
    /\ Left
    /\ Len(emitted) = 1
    /\ emitted[1].msg = "C7003"
    /\ emitted[1].args[1] = Lines(<<str_import_requests, str_import_os>>)
    /\ emitted[1].args[2] = Lines(<<str_import_os, str_import_requests>>)

\* C3: leave_module emits C7004 exactly when the collected order is the
\* stable partition by group but some statement precedes one with a smaller
\* (group, pieces, text) key.
C3_C7004IffGroupedNotAlphabetical ==
    Left =>
        LET collected == TopLevel(visited)
            actual == Texts(collected)
        IN  "C7004" \in Codes(emitted) <=>
                /\ actual = Texts(StablePartition(collected))
                /\ "C7003" \notin Codes(emitted)
                /\ ~AlphaOrdered(collected)

\* import sys then import os, both standard library: C7004 and not C7003
C3_Witness ==
    /\ Left
    /\ Texts(TopLevel(visited)) = <<str_import_sys, str_import_os>>
    /\ emitted =
           <<OrderMsg("C7004", <<str_import_sys, str_import_os>>,
                      <<str_import_os, str_import_sys>>)>>

\* C4: the buffer holds only statements whose parent is a module; a nested
\* import is reported with C7002, is not collected, and is absent from the
\* lists of the ordering message.
C4_OnlyTopLevelCollected ==
    /\ \A i \in 1..Len(_imports) : _imports[i].parent.type = "Module"
    /\ phase = "visiting" => _imports = TopLevel(visited)
    /\ (last \in {"visit_import", "visit_from"}
        /\ visited[Len(visited)].parent.type # "Module")
           => "C7002" \in Codes(emitted)
    /\ (Left /\ emitted # <<>>) =>
           /\ emitted[1].args[1] = Lines(Texts(TopLevel(visited)))
           /\ Len(split(emitted[1].args[2], "\n")) = Len(TopLevel(visited))
           /\ \A k \in 1..Len(split(emitted[1].args[2], "\n")) :
                  \E i \in 1..Len(TopLevel(visited)) :
                      split(emitted[1].args[2], "\n")[k]
                          = <<" ", " ">> \o as_string(TopLevel(visited)[i])
    /\ Left => (emitted # <<>> <=> ~AlphaOrdered(TopLevel(visited)))

\* a module with a nested import and a top-level one got an ordering message
C4_Witness ==
    /\ Left
    /\ emitted # <<>>
    /\ \E i \in 1..Len(visited) : visited[i].parent.type = "Function"

\* C5: after leave_module the buffer is empty whatever was emitted, so what
\* leave_module emits is what it emits for the top-level imports visited
\* since the leave_module before.
C5_BufferClearedEveryModule ==
    Left =>
        /\ _imports = <<>>
        /\ emitted =
               leave_module([_imports |-> TopLevel(visited), emitted |-> <<>>],
                            module).emitted

\* the second module was verified, with C7004, and the buffer is empty again
C5_Witness ==
    /\ Left
    /\ module.id = 2
    /\ Codes(emitted) = {"C7004"}
    /\ _imports = <<>>

\* C6: what a leave_module call emits is what it emits for the top-level
\* imports of the module being left alone, also when the host gave up an
\* earlier module without calling leave_module for it.
C6_NoStaleRecordsAfterAbandon ==
    Left =>
        emitted =
            leave_module([_imports |-> SelectSeq(visited, LAMBDA n : n.parent = module),
                          emitted |-> <<>>], module).emitted

\* the pieces p with Dotted(p) = the enclosing module's dotted name
ModulePath ==
    CHOOSE p \in SeqsUpTo({w_pkg, w_mod}, MaxDepth) : Dotted(p) = module.name

\* the pieces q with Dotted(q) = the stated module path of a from-import
StatedPath(n) ==
    CHOOSE q \in SeqsUpTo({w_os, w_pkg}, 2) : Dotted(q) = n.modname

\* list without its last k elements, empty when it has no more than k
DropLast(list, k) ==
    [i \in 1..(IF Len(list) > k THEN Len(list) - k ELSE 0) |-> list[i]]

\* C7 as claimed: the pieces of a from-import are the enclosing module's path
\* without its last relative-level pieces (level 0 strips none), the stated
\* module path, and the first imported name.
C7_PiecesStripLevelZeroStripsNone ==
    (result # NoResult /\ _imports[1].type = "From") =>
        result[1] =
            DropLast(ModulePath, _imports[1].level)
            \o StatedPath(_imports[1]) \o <<_imports[1].names[1][1]>>

\* C7 amended: for a relative-level of 1 or more the enclosing module's path
\* loses that many trailing pieces (all of them when it has no more); for
\* relative-level 0 the enclosing module's path contributes no piece; then come
\* the stated module path and the first imported name.
C7_PiecesOfFromImport ==
    (result # NoResult /\ _imports[1].type = "From") =>
        result[1] =
            (IF _imports[1].level = 0 THEN <<>>
             ELSE DropLast(ModulePath, _imports[1].level))
            \o StatedPath(_imports[1]) \o <<_imports[1].names[1][1]>>

\* an absolute from-import binding two names inside pkg.mod got the stated
\* path and the first name, and nothing of pkg.mod
C7_Witness ==
    /\ result # NoResult
    /\ _imports[1].type = "From"
    /\ _imports[1].level = 0
    /\ Len(_imports[1].names) = 2
    /\ module.name = Dotted(<<w_pkg, w_mod>>)
    /\ result[1] = <<w_os, w_helpers>>

\* path lies below the directory that prefix (with its trailing slash) names
Below(path, prefix) ==
    LET p == split(path, "/")
        d == split(prefix, "/")
    IN  /\ Len(p) >= Len(d)
        /\ \A i \in 1..(Len(d) - 1) : p[i] = d[i]

\* the name handed to _module_group and the real path it resolves to
ClassifiedName == _imports[1].names[1][1]
ClassifiedRealPath == realpath(env.modules[ClassifiedName].path)

\* C8: a built-in name is standard library; otherwise a real path below the
\* working-directory prefix is application-local; otherwise a real path below
\* the standard-library prefix without a site-packages or dist-packages
\* segment is standard library; every other resolved path is third party.
C8_ClassificationPrecedence ==
    (result # NoResult
     /\ (ClassifiedName \in env.builtin_module_names
         \/ ClassifiedName \in DOMAIN env.modules)) =>
        result[1] =
            IF ClassifiedName \in env.builtin_module_names
            THEN _GROUP_STDLIB
            ELSE IF Below(ClassifiedRealPath, realpath(env.cwd) \o slash)
            THEN _GROUP_APP_SPECIFIC
            ELSE IF /\ Below(ClassifiedRealPath, realpath(env.prefix) \o slash)
                    /\ \A i \in 1..Len(split(ClassifiedRealPath, "/")) :
                           split(ClassifiedRealPath, "/")[i]
                               \notin {w_site_packages, w_dist_packages}
            THEN _GROUP_STDLIB
            ELSE _GROUP_THIRD_PARTY

\* a module below the cwd, below the standard-library prefix as well and in
\* a site-packages directory, was classified application-local
C8_Witness ==
    /\ result = <<_GROUP_APP_SPECIFIC>>
    /\ ClassifiedName \notin env.builtin_module_names
    /\ Below(ClassifiedRealPath, realpath(env.prefix) \o slash)
    /\ w_site_packages \in Range(split(ClassifiedRealPath, "/"))

\* the first piece of a statement is no built-in and imp.find_module fails
Unresolvable(n) ==
    /\ pieces(n, module)[1] \notin env.builtin_module_names
    /\ pieces(n, module)[1] \notin DOMAIN env.modules

\* the group of a statement, an unresolvable one counted as third party
GroupUnresolvedThirdParty(n) ==
    IF Unresolvable(n) THEN _GROUP_THIRD_PARTY ELSE GroupOf(n)

\* C9: with an unresolvable import collected, leave_module completes, clears
\* the buffer, and emits C7003 exactly when some import precedes one of a
\* smaller group, the unresolvable import counting as third party.
C9_UnresolvableIsThirdParty ==
    LET collected == TopLevel(visited)
    IN  (Left /\ \E i \in 1..Len(collected) : Unresolvable(collected[i])) =>
            /\ _imports = <<>>
            /\ "C7003" \in Codes(emitted) <=>
                   \E i, j \in 1..Len(collected) :
                       /\ i < j
                       /\ GroupUnresolvedThirdParty(collected[j])
                              < GroupUnresolvedThirdParty(collected[i])

\* an unresolvable import followed by a standard-library one got C7003
C9_Witness ==
    LET collected == TopLevel(visited)
    IN  /\ Left
        /\ _imports = <<>>
        /\ "C7003" \in Codes(emitted)
        /\ Len(collected) = 2
        /\ Unresolvable(collected[1])
        /\ GroupOf(collected[2]) = _GROUP_STDLIB

\* C10: a plain import binding several names emits C7001 once, one binding a
\* single name emits none, and either is collected as one record: one line
\* of the Found and Expected lists.
C10_MultiNameImportIsOneRecord ==
    /\ last = "visit_import" =>
           LET node == visited[Len(visited)]
           IN  /\ Len(SelectSeq(emitted, LAMBDA m : m.msg = "C7001"))
                      = (IF Len(node.names) > 1 THEN 1 ELSE 0)
               /\ _imports = TopLevel(visited)
    /\ (Left /\ emitted # <<>>) =>
           /\ Len(split(emitted[1].args[1], "\n")) = Len(TopLevel(visited))
           /\ Len(split(emitted[1].args[2], "\n")) = Len(TopLevel(visited))

\* import sys, os at top level: one C7001 and one record
C10_Witness ==
    /\ last = "visit_import"
    /\ Len(visited[Len(visited)].names) > 1
    /\ visited[Len(visited)].parent.type = "Module"
    /\ Len(emitted) = 1
    /\ emitted[1].msg = "C7001"
    /\ _imports = <<visited[Len(visited)]>>

\* C11: visit_from emits C7005 exactly when the relative-level is not 0, at
\* top level or not; a nested from-import gets C7002 as well, a top-level one
\* is collected whatever its level.
C11_RelativeImportReported ==
    last = "visit_from" =>
        LET node == visited[Len(visited)]
        IN  /\ "C7005" \in Codes(emitted) <=> node.level # 0
            /\ Len(SelectSeq(emitted, LAMBDA m : m.msg = "C7005")) <= 1
            /\ "C7002" \in Codes(emitted) <=> node.parent.type # "Module"
            /\ node.parent.type = "Module" =>
                   (_imports # <<>> /\ _imports[Len(_imports)] = node)
            /\ \A i \in 1..Len(emitted) : emitted[i].node = node

\* a relative from-import inside a function got C7005 and C7002
C11_Witness ==
    /\ last = "visit_from"
    /\ visited[Len(visited)].level = 1
    /\ visited[Len(visited)].parent.type = "Function"
    /\ Codes(emitted) = {"C7005", "C7002"}

\* the lines of a Found or Expected argument, without their two-space indent
UnLines(text) ==
    [i \in 1..Len(split(text, "\n")) |->
        SubSeq(split(text, "\n")[i], 3, Len(split(text, "\n")[i]))]

\* the lines of a unified diff after its '---' and '+++' lines
DiffLines(diff) ==
    SubSeq(split(diff, "\n"), 3, Len(split(diff, "\n")) - 1)

\* the int a str of digits denotes
RECURSIVE ParseInt(_)
ParseInt(digits) ==
    IF digits = <<>> THEN 0
    ELSE 10 * ParseInt(SubSeq(digits, 1, Len(digits) - 1))
         + (CHOOSE d \in 0..9 : Digits[d + 1] = digits[Len(digits)])

\* the number of lines of the old file that precede the hunk of an '@@' line
HunkStart(header) ==
    LET numbers == split(Tail(split(header, " ")[2]), ",")
        start == ParseInt(numbers[1])
        length == IF Len(numbers) = 2 THEN ParseInt(numbers[2]) ELSE 1
    IN  IF length = 0 THEN start ELSE start - 1

\* the old file patched by the remaining diff lines, pos old lines being done:
\* a ' ' line keeps an old line, a '-' line drops one, a '+' line inserts
RECURSIVE Patch(_, _, _)
Patch(lines, old, pos) ==
    IF lines = <<>> THEN SubSeq(old, pos + 1, Len(old))
    ELSE LET line == Head(lines)
         IN  IF line[1] = "@"
             THEN SubSeq(old, pos + 1, HunkStart(line))
                  \o Patch(Tail(lines), old, HunkStart(line))
             ELSE IF line[1] = " "
             THEN <<old[pos + 1]>> \o Patch(Tail(lines), old, pos + 1)
             ELSE IF line[1] = "-"
             THEN Patch(Tail(lines), old, pos + 1)
             ELSE <<Tail(line)>> \o Patch(Tail(lines), old, pos)

\* C15: whenever C7003 or C7004 is emitted, the Diff argument applied to the
\* Found list (its '-' lines dropped, its '+' lines inserted) gives the
\* Expected list.
C15_DiffRoundTrip ==
    (Left /\ emitted # <<>>) =>
        /\ emitted[1].args[3] # <<>>
        /\ Patch(DiffLines(emitted[1].args[3]), UnLines(emitted[1].args[1]), 0)
               = UnLines(emitted[1].args[2])

\* a diff with a kept line, a dropped line and an inserted line was applied
C15_Witness ==
    /\ Left
    /\ emitted # <<>>
    /\ {DiffLines(emitted[1].args[3])[i][1] :
            i \in 1..Len(DiffLines(emitted[1].args[3]))} = {"@", " ", "-", "+"}
    /\ Patch(DiffLines(emitted[1].args[3]), UnLines(emitted[1].args[1]), 0)
           = UnLines(emitted[1].args[2])

\* the group of the collected statement rendered as text
GroupOfText(text) ==
    GroupOf(CHOOSE n \in Range(TopLevel(visited)) : as_string(n) = text)

\* the group-only expected list of the module just left: the Expected
\* argument of C7003, or the collected texts when they raised no C7003
ExpectedGroupOnly ==
    IF "C7003" \in Codes(emitted) THEN UnLines(emitted[1].args[2])
    ELSE Texts(TopLevel(visited))

\* C12: in the group-only expected list no import comes before an import of
\* a smaller group (standard library < third party < application).
C12_ExpectedGroupsNonDecreasing ==
    Left =>
        \A a, b \in 1..Len(ExpectedGroupOnly) :
            a < b => GroupOfText(ExpectedGroupOnly[a]) <= GroupOfText(ExpectedGroupOnly[b])

\* C7003 was emitted for imports of all three groups
C12_Witness ==
    /\ Left
    /\ "C7003" \in Codes(emitted)
    /\ {GroupOf(TopLevel(visited)[i]) : i \in 1..Len(TopLevel(visited))}
           = {_GROUP_STDLIB, _GROUP_THIRD_PARTY, _GROUP_APP_SPECIFIC}

\* the number of times x occurs in list
Count(list, x) == Cardinality({i \in 1..Len(list) : list[i] = x})

\* C13: the group-only expected list keeps the imports of each group in
\* their collected order; imports with the same (group, pieces, text) key
\* have the same text, and the alphabetical expected list holds it as often
\* as it was collected.
C13_ExpectedListsStable ==
    Left =>
        LET collected == TopLevel(visited)
        IN  /\ "C7003" \in Codes(emitted) =>
                   \A g \in {_GROUP_STDLIB, _GROUP_THIRD_PARTY, _GROUP_APP_SPECIFIC} :
                       SelectSeq(UnLines(emitted[1].args[2]),
                                 LAMBDA t : GroupOfText(t) = g)
                           = Texts(InGroup(collected, g))
            /\ "C7004" \in Codes(emitted) =>
                   \A i, j \in 1..Len(collected) :
                       (/\ i < j
                        /\ ~SortsBefore(collected[i], collected[j])
                        /\ ~SortsBefore(collected[j], collected[i])) =>
                           /\ as_string(collected[i]) = as_string(collected[j])
                           /\ Count(UnLines(emitted[1].args[2]), as_string(collected[i]))
                                  = Count(Texts(collected), as_string(collected[i]))

\* C7003 was emitted and two imports of one group were collected against
\* the alphabet
C13_Witness ==
    LET collected == TopLevel(visited)
    IN  /\ Left
        /\ "C7003" \in Codes(emitted)
        /\ \E i, j \in 1..Len(collected) :
               /\ i < j
               /\ GroupOf(collected[i]) = GroupOf(collected[j])
               /\ SortsBefore(collected[j], collected[i])

\* the messages a statement calls for by itself
StatementCodes(node) ==
    (IF node.type = "Import" /\ Len(node.names) > 1 THEN {"C7001"} ELSE {})
    \cup (IF node.type = "From" /\ node.level # 0 THEN {"C7005"} ELSE {})
    \cup (IF node.parent.type # "Module" THEN {"C7002"} ELSE {})

\* C14: a visit callback emits exactly the C7001, C7002 and C7005 its
\* statement calls for, attached to that statement, while the module is
\* still being walked; leave_module emits nothing but C7003 or C7004.
C14_StatementMessagesEager ==
    /\ last \in {"visit_import", "visit_from"} =>
           /\ phase = "visiting"
           /\ Codes(emitted) = StatementCodes(visited[Len(visited)])
           /\ \A i \in 1..Len(emitted) : emitted[i].node = visited[Len(visited)]
    /\ Left =>
           /\ phase = "left"
           /\ Codes(emitted) \subseteq {"C7003", "C7004"}

\* a nested multi-name import got C7001 and C7002 in its own callback
C14_Witness ==
    /\ last = "visit_import"
    /\ phase = "visiting"
    /\ Codes(emitted) = {"C7001", "C7002"}

\* C16: when the collected texts differ from the group-only expected list
\* they differ from the alphabetical expected list too; a module whose
\* texts equal the alphabetical expected list gets no ordering message.
C16_AlphabeticalRefinesGrouped ==
    Left =>
        LET collected == TopLevel(visited)
            actual == actual_of(collected)
            by_group == strs(sort("C7003", expected1_of(collected, module)))
            by_alphabet == strs(sort("C7004", expected2_of(collected, module)))
        IN  /\ actual # by_group => actual # by_alphabet
            /\ actual = by_alphabet => emitted = <<>>
            /\ "C7003" \in Codes(emitted) => actual # by_alphabet

\* imports of two groups in alphabetical order got no message
C16_Witness ==
    LET collected == TopLevel(visited)
    IN  /\ Left
        /\ emitted = <<>>
        /\ Len(collected) >= 2
        /\ GroupOf(collected[1]) # GroupOf(collected[Len(collected)])
        /\ actual_of(collected)
               = strs(sort("C7004", expected2_of(collected, module)))

\* C17: the Expected list of an ordering message is a permutation of its
\* Found list, which is the list of collected texts.
C17_ExpectedIsPermutation ==
    (Left /\ emitted # <<>>) =>
        LET found == UnLines(emitted[1].args[1])
            expected == UnLines(emitted[1].args[2])
        IN  /\ found = Texts(TopLevel(visited))
            /\ Len(expected) = Len(found)
            /\ \A t \in Range(found) \cup Range(expected) :
                   Count(expected, t) = Count(found, t)

\* an ordering message for a module that imports the same thing twice
C17_Witness ==
    /\ Left
    /\ emitted # <<>>
    /\ \E t \in Range(UnLines(emitted[1].args[1])) :
           /\ Count(UnLines(emitted[1].args[1]), t) = 2
           /\ Count(UnLines(emitted[1].args[2]), t) = 2

\* the pieces p with Dotted(p) = a bound name
NamePath(name) ==
    CHOOSE p \in SeqsUpTo({w_os, w_path, w_helpers}, 2) : Dotted(p) = name

\* C18: the pieces of a statement binding several names are those of its
\* first name: for a plain import the pieces of that name, for a from-import
\* that name as the last piece; the later names change nothing.
C18_PiecesFromFirstName ==
    result # NoResult =>
        LET n == _imports[1]
            first == n.names[1][1]
        IN  /\ n.type = "Import" => result[1] = NamePath(first)
            /\ n.type = "From" =>
                   /\ result[1][Len(result[1])] = first
                   /\ Len(result[1]) =
                          Len(slice_to(ModulePath, 0 - n.level))
                          + Len(StatedPath(n)) + 1
            /\ result[1] = pieces([n EXCEPT !.names = <<n.names[1]>>], module)

\* import helpers, path got the pieces of helpers
C18_Witness ==
    /\ result = <<<<w_helpers>>>>
    /\ _imports[1].type = "Import"
    /\ Len(_imports[1].names) = 2

\* C19: the pieces of a collected import are never empty; a from-import
\* whose relative-level is at least the depth of the enclosing module's
\* dotted name gets the stated path and the first name and nothing else.
C19_PiecesNonEmpty ==
    result # NoResult =>
        /\ Len(result[1]) >= 1
        /\ (/\ _imports[1].type = "From"
            /\ _imports[1].level >= Len(ModulePath)) =>
               result[1] = StatedPath(_imports[1]) \o <<_imports[1].names[1][1]>>

\* from ... import path, three dots, inside a module one piece deep
C19_Witness ==
    /\ result = <<<<w_path>>>>
    /\ _imports[1].type = "From"
    /\ _imports[1].level = 3
    /\ Len(ModulePath) = 1

====
